---- MODULE Spec2Model ----
(***************************************************************************)
(* Model of telegram_media_downloader: begin_import / process_messages     *)
(* (media_downloader.py) and download_media with its helpers               *)
(* (media_handler.py).                                                     *)
(*                                                                         *)
(* Every download_media coroutine is a task of the asyncio event loop.     *)
(* A task runs atomically between two suspension points; the suspension    *)
(* points are the awaits on the Telegram client (client.download_media,    *)
(* client.get_messages, the history iterator) and asyncio.sleep.           *)
(***************************************************************************)
EXTENDS FiniteSets, Integers, Sequences, TLC

\* ------------------------------------------------------------------------
\* Bounds of the explored inputs
\* ------------------------------------------------------------------------
MaxStream == 3      \* longest message stream of a run
MaxId == 4          \* largest message id
MaxLimit == 2       \* largest pagination_limit
MaxThumbs == 1      \* most thumbnails of a video

\* ------------------------------------------------------------------------
\* Program constants
\* ------------------------------------------------------------------------
Retries == 3        \* for retry in range(3)
LastRetry == 2      \* if retry == 2

None == "None"
Missing == "Missing"            \* the object has no such attribute

FormatTypes == {"audio", "document", "video"}
MessageErrors == {"BadRequest", "TypeError", "Exception"}

\* ------------------------------------------------------------------------
\* Messages.  kind is the attachment the message carries: "none" is
\* message.media = None, "other" a media that is none of the five types.
\* mime is the MIME type split at "/", None, or Missing (pyrogram's Photo
\* has no mime_type attribute).  thumbs is -1 for video.thumbs = None.
\* ------------------------------------------------------------------------
Message(id, kind, mime, label, thumbs) ==
    [id |-> id, kind |-> kind, mime |-> mime, label |-> label, thumbs |-> thumbs]

\* getattr(message, _type, None) is not None
HasAttr(message, type) == message.kind = type

\* str.split("/") of the MIME types of the explored messages
SplitSlash(mime) ==
    CASE mime = "application/pdf" -> <<"application", "pdf">>
      [] mime = "application/zip" -> <<"application", "zip">>
      [] mime = "video/mp4" -> <<"video", "mp4">>
      [] mime = "audio/mpeg" -> <<"audio", "mpeg">>
      [] mime = "audio/ogg" -> <<"audio", "ogg">>
      [] OTHER -> <<mime>>

\* media_obj.mime_type.split("/")[-1]
MimeSuffix(mime) == SplitSlash(mime)[Len(SplitSlash(mime))]

\* _get_media_meta: file_name and file_format, or the error it raises
_get_media_meta(media_obj, type) ==
    IF media_obj.mime = Missing
    THEN [err |-> "Exception", name |-> <<>>, format |-> None]   \* AttributeError, line 159
    ELSE IF type \in FormatTypes \cup {"voice"} /\ media_obj.mime = None
    THEN [err |-> "Exception", name |-> <<>>, format |-> None]   \* None.split, lines 161, 167
    ELSE LET fmt == IF type \in FormatTypes \cup {"voice"}
                    THEN MimeSuffix(media_obj.mime) ELSE None
             name == IF type = "voice" THEN <<type, media_obj.label, fmt>>
                     ELSE IF type = "photo" THEN <<type, media_obj.label, "jpg">>
                     ELSE <<type, media_obj.label>>
         IN  [err |-> None, name |-> name, format |-> fmt]

\* "x in list"
InList(x, list) == \E i \in 1..Len(list) : list[i] = x

\* _can_download
CanDownloadAllAnywhere(type, formats, format) ==
    IF type \in FormatTypes
    THEN ~(~InList(format, formats[type]) /\ ~InList("all", formats[type]))
    ELSE TRUE

_can_download(type, formats, format) ==
    IF type \in FormatTypes
    THEN ~(~InList(format, formats[type]) /\ formats[type][1] # "all")
    ELSE TRUE

\* _is_exist: a regular file occupies the path
NeverExist(fs, path) == FALSE

_is_exist(fs, path) == path \in fs

\* utils.file_management.get_next_name: an alternate name for a taken path
get_next_name(path) == Append(path, "copy")

\* utils.file_management.manage_duplicate_file: the final path of a download
manage_duplicate_file(path) == path

VARIABLES
    history,                \* the messages client.iter_history yields, in order
    pagination_limit,       \* argument of begin_import
    debug,                  \* argument of begin_import
    media_types,            \* config["media_types"]
    file_formats,           \* config["file_formats"]
    start_id,               \* config["last_read_message_id"] when the run starts
    config_last_read,       \* config["last_read_message_id"]
    last_read_message_id,   \* local of begin_import
    pagination_count,       \* local of begin_import
    messages_list,          \* local of begin_import
    pulled,                 \* number of messages the iterator has yielded
    pc,                     \* position of begin_import
    tasks,                  \* the download_media tasks started so far
    FAILED_IDS,             \* StaticInfo.FAILED_IDS
    files,                  \* paths taken by a regular file
    calls,                  \* the client.download_media calls issued so far
    pages                   \* the lists handed to process_messages so far

vars == <<history, pagination_limit, debug, media_types, file_formats, start_id,
          config_last_read, last_read_message_id, pagination_count, messages_list,
          pulled, pc, tasks, FAILED_IDS, files, calls, pages>>

inputs == <<history, pagination_limit, debug, media_types, file_formats, start_id>>
importVars == <<config_last_read, last_read_message_id, pagination_count,
                messages_list, pulled, pc, pages>>

\* ------------------------------------------------------------------------
\* download_media, one task per message.  A task is at "new" (created by
\* gather, not yet run), awaits "download", "get_messages" or "sleep", or has
\* ended: "done" (returned result) or "raised".  attempts counts the entries
\* into the try body, errors the BadRequest and TypeError exceptions caught,
\* broke tells that the last except clause was entered, soft counts the
\* download calls that returned None, seen is the media of the message at the
\* top of the latest attempt.
\* ------------------------------------------------------------------------
Terminal == {"done", "raised"}

NoCall == [what |-> None, path |-> <<>>]
NoMessage == Message(0, "none", None, None, 0)

NewTask(message, page) ==
    [id |-> message.id, page |-> page, pc |-> "new", retry |-> 0, attempts |-> 0,
     message |-> message, ti |-> 0, k |-> 0, branch |-> None, call |-> NoCall,
     download_path |-> "unbound", result |-> 0, errors |-> 0, broke |-> FALSE,
     soft |-> 0, seen |-> None]

\* what a task keeps once it has ended
Ended(t, how, result) ==
    [id |-> t.id, page |-> t.page, pc |-> how, retry |-> t.retry,
     attempts |-> t.attempts, message |-> NoMessage, ti |-> 0, k |-> 0,
     branch |-> None, call |-> NoCall, download_path |-> None, result |-> result,
     errors |-> t.errors, broke |-> t.broke, soft |-> t.soft, seen |-> t.seen]

\* return message.message_id (lines 59 and 138)
ReturnZeroOnFailure(t, fails) ==
    [task |-> Ended(t, "done", IF fails # <<>> THEN 0 ELSE t.message.id), fails |-> fails]

Return(t, fails) == [task |-> Ended(t, "done", t.message.id), fails |-> fails]

\* await client.download_media(...)
Suspend(t, i, k, branch, what, path) ==
    [task |-> [t EXCEPT !.pc = "download", !.ti = i, !.k = k, !.branch = branch,
                        !.call = [what |-> what, path |-> path]],
     fails |-> <<>>]

\* the except clauses up to their first await (lines 99-104, 115-121, 128-137)
CatchAllAsTimeout(t, err) ==
    IF err = "BadRequest"
    THEN [task |-> [t EXCEPT !.pc = "get_messages", !.call = NoCall, !.errors = @ + 1],
          fails |-> <<>>]
    ELSE IF err = "TypeError"
    THEN [task |-> [t EXCEPT !.pc = "sleep", !.call = NoCall, !.errors = @ + 1],
          fails |-> <<>>]
    ELSE [task |-> [t EXCEPT !.pc = "sleep", !.call = NoCall, !.broke = TRUE],
          fails |-> <<t.message.id>>]

Catch(t, err) ==
    IF err = "BadRequest"
    THEN [task |-> [t EXCEPT !.pc = "get_messages", !.call = NoCall, !.errors = @ + 1],
          fails |-> <<>>]
    ELSE IF err = "TypeError"
    THEN [task |-> [t EXCEPT !.pc = "sleep", !.call = NoCall, !.errors = @ + 1],
          fails |-> <<>>]
    ELSE Return([t EXCEPT !.broke = TRUE], <<t.message.id>>)

RECURSIVE Continue(_, _)
\* if download_path: ... (lines 94-97), then the next media type
LoggedRaiseOnNone(t, i) ==
    IF t.download_path = "unbound"
    THEN Catch(t, "Exception")
    ELSE IF t.download_path = None
    THEN Catch(t, "TypeError")
    ELSE Continue(t, i + 1)

Logged(t, i) ==
    IF t.download_path = "unbound"
    THEN Catch(t, "Exception")                  \* UnboundLocalError
    ELSE Continue(t, i + 1)

\* for thumb in message.video.thumbs (lines 81-84), from the k-th thumbnail
Thumbs(t, i, k, file_name) ==
    IF t.message.thumbs = -1
    THEN Catch(t, "TypeError")                  \* None is not iterable
    ELSE IF k > t.message.thumbs
    THEN Logged(t, i)
    ELSE Suspend(t, i, k, "thumb", "thumb", Append(file_name, "jpg"))

\* for _type in media_types (lines 60-98), from the i-th type
Continue(t, i) ==
    IF i > Len(media_types)
    THEN Return(t, <<>>)                        \* break, line 98
    ELSE LET type == media_types[i]
         IN  IF ~HasAttr(t.message, type)
             THEN Continue(t, i + 1)
             ELSE LET meta == _get_media_meta(t.message, type)
                  IN  IF meta.err # None
                      THEN Catch(t, meta.err)
                      ELSE IF meta.format = None
                      THEN Catch(t, "TypeError")    \* str + None, line 65
                      ELSE LET save_name == Append(meta.name, meta.format)
                           IN  IF ~_can_download(type, file_formats, meta.format)
                               THEN Continue(t, i + 1)
                               ELSE IF _is_exist(files, save_name)
                               THEN Suspend(t, i, 0, "exist", "message",
                                            get_next_name(save_name))
                               ELSE IF t.message.kind = "photo"
                               THEN Suspend(t, i, 0, "plain", "file_id", save_name)
                               ELSE IF t.message.kind = "video"
                               THEN Thumbs(t, i, 1, meta.name)
                               ELSE Suspend(t, i, 0, "plain", "message", save_name)

\* one pass of the try body from its top (lines 57-59)
BeginAttemptFailNone(t) ==
    LET t1 == [t EXCEPT !.attempts = @ + 1, !.seen = t.message.kind]
    IN  IF t1.message.kind = "none"
        THEN Return(t1, <<t1.message.id>>)
        ELSE Continue(t1, 1)

BeginAttempt(t) ==
    LET t1 == [t EXCEPT !.attempts = @ + 1, !.seen = t.message.kind]
    IN  IF t1.message.kind = "none"
        THEN Return(t1, <<>>)
        ELSE Continue(t1, 1)

\* the end of an except clause that does not break: next retry of range(3)
EndlessNextIteration(t) == BeginAttempt([t EXCEPT !.retry = @ + 1])

NextIteration(t) ==
    IF t.retry + 1 >= Retries
    THEN Return(t, <<>>)
    ELSE BeginAttempt([t EXCEPT !.retry = @ + 1])

\* if retry == 2: FAILED_IDS.append(...) and the next iteration
AfterHandlerNoRecord(t) == NextIteration(t)

AfterHandlerAlwaysRecord(t) ==
    LET r == NextIteration(t)
    IN  [task |-> r.task, fails |-> <<t.message.id>> \o r.fails]

AfterHandler(t) ==
    LET r == NextIteration(t)
    IN  [task |-> r.task,
         fails |-> (IF t.retry = LastRetry THEN <<t.message.id>> ELSE <<>>) \o r.fails]

\* the outcome r of a step of task n
Apply(n, r) ==
    /\ tasks' = [tasks EXCEPT ![n] = r.task]
    /\ FAILED_IDS' = FAILED_IDS \o r.fails
    /\ calls' = IF r.task.pc = "download"
                THEN calls \cup {[id |-> r.task.id, what |-> r.task.call.what,
                                  path |-> r.task.call.path]}
                ELSE calls

\* the event loop runs the tasks while begin_import awaits gather
Awaiting == pc \in {"page", "flush"}

\* the task runs for the first time (line 55)
TaskStart(n) ==
    /\ n \in DOMAIN tasks
    /\ Awaiting
    /\ tasks[n].pc = "new"
    /\ Apply(n, BeginAttempt(tasks[n]))
    /\ UNCHANGED <<inputs, importVars, files>>

\* client.download_media returns a path or None, or raises err
DownloadReturns(n, outcome) ==
    /\ n \in DOMAIN tasks
    /\ Awaiting
    /\ LET t == tasks[n] IN
       /\ t.pc = "download"
       /\ IF outcome \in MessageErrors
          THEN /\ Apply(n, Catch(t, outcome))
               /\ files' = files
          ELSE LET path == IF t.branch = "exist"
                           THEN manage_duplicate_file(outcome) ELSE outcome
                   t1 == [t EXCEPT !.download_path = path, !.call = NoCall,
                                   !.soft = IF outcome = None THEN @ + 1 ELSE @]
               IN  /\ Apply(n, IF t.branch = "thumb"
                               THEN Thumbs(t1, t.ti, t.k + 1,
                                           _get_media_meta(t.message, media_types[t.ti]).name)
                               ELSE Logged(t1, t.ti))
                   /\ files' = IF outcome = "path" THEN files \cup {t.call.path} ELSE files
    /\ UNCHANGED <<inputs, importVars>>

\* client.get_messages returns message (lines 104-114), or raises
GetMessagesReturns(n, outcome) ==
    /\ n \in DOMAIN tasks
    /\ Awaiting
    /\ LET t == tasks[n] IN
       /\ t.pc = "get_messages"
       /\ IF outcome = "raise"
          THEN Apply(n, [task |-> Ended(t, "raised", 0), fails |-> <<>>])
          ELSE Apply(n, AfterHandler([t EXCEPT !.message =
                           IF outcome = "same" THEN t.message
                           ELSE Message(t.id, "none", None, None, 0)]))
    /\ UNCHANGED <<inputs, importVars, files>>

\* asyncio.sleep(5) returns (lines 121-127)
SleepReturns(n) ==
    /\ n \in DOMAIN tasks
    /\ Awaiting
    /\ tasks[n].pc = "sleep"
    /\ Apply(n, AfterHandler(tasks[n]))
    /\ UNCHANGED <<inputs, importVars, files>>

\* ------------------------------------------------------------------------
\* process_messages and begin_import
\* ------------------------------------------------------------------------
RECURSIVE SeqMax(_)
SeqMax(s) == IF Len(s) = 1 THEN s[1]
             ELSE LET m == SeqMax(Tail(s)) IN IF s[1] >= m THEN s[1] ELSE m

\* the tasks gather was called with last
PageTasks == {n \in 1..Len(tasks) : tasks[n].page = Len(pages)}

\* asyncio.gather(*[download_media(...) for message in messages]) (lines 65-70)
Gather(messages) ==
    /\ tasks' = tasks \o [i \in 1..Len(messages) |-> NewTask(messages[i], Len(pages) + 1)]
    /\ pages' = Append(pages, [i \in 1..Len(messages) |-> messages[i].id])

\* gather is done: every task of the page has returned
GatherAny == \E n \in PageTasks : tasks[n].pc = "done"

GatherDone == \A n \in PageTasks : tasks[n].pc = "done"

\* message_ids, in the order of the messages
message_ids == [i \in 1..Cardinality(PageTasks) |->
                  tasks[Len(tasks) - Cardinality(PageTasks) + i].result]

\* max(message_ids) (line 72)
FirstResult == message_ids[1]

PageResult == SeqMax(message_ids)

\* lines 121-124
PullAppend ==
    /\ pc = "iter"
    /\ pulled < Len(history)
    /\ pagination_count # pagination_limit
    /\ pulled' = pulled + 1
    /\ pagination_count' = pagination_count + 1
    /\ messages_list' = Append(messages_list, history[pulled + 1])
    /\ UNCHANGED <<inputs, config_last_read, last_read_message_id, pc, pages,
                   tasks, FAILED_IDS, files, calls>>

\* lines 125-132: the call of process_messages
PullDispatch ==
    /\ pc = "iter"
    /\ pulled < Len(history)
    /\ pagination_count = pagination_limit
    /\ pulled' = pulled + 1
    /\ Gather(messages_list)
    /\ pc' = "page"
    /\ UNCHANGED <<inputs, config_last_read, last_read_message_id, pagination_count,
                   messages_list, FAILED_IDS, files, calls>>

\* lines 127-138: process_messages returns; with debug the loop is left
\* and the list, which is not empty, is flushed (lines 140-146)
PageReturns ==
    /\ pc = "page"
    /\ GatherDone
    /\ last_read_message_id' = PageResult
    /\ pagination_count' = 0
    /\ messages_list' = <<history[pulled]>>
    /\ config_last_read' = PageResult
    /\ IF debug
       THEN /\ Gather(messages_list')
            /\ pc' = "flush"
       ELSE /\ pc' = "iter"
            /\ UNCHANGED <<tasks, pages>>
    /\ UNCHANGED <<inputs, pulled, FAILED_IDS, files, calls>>

\* the iterator is exhausted: lines 140-150
Exhausted ==
    /\ pc = "iter"
    /\ pulled = Len(history)
    /\ IF Len(messages_list) # 0
       THEN /\ Gather(messages_list)
            /\ pc' = "flush"
            /\ UNCHANGED config_last_read
       ELSE /\ config_last_read' = last_read_message_id
            /\ pc' = "done"
            /\ UNCHANGED <<tasks, pages>>
    /\ UNCHANGED <<inputs, last_read_message_id, pagination_count, messages_list,
                   pulled, FAILED_IDS, files, calls>>

\* lines 141-150: the last process_messages returns
FlushReturnsNoWrite ==
    /\ pc = "flush"
    /\ GatherDone
    /\ last_read_message_id' = PageResult
    /\ pc' = "done"
    /\ UNCHANGED <<inputs, config_last_read, pagination_count, messages_list, pulled,
                   pages, tasks, FAILED_IDS, files, calls>>

FlushReturns ==
    /\ pc = "flush"
    /\ GatherDone
    /\ last_read_message_id' = PageResult
    /\ config_last_read' = PageResult
    /\ pc' = "done"
    /\ UNCHANGED <<inputs, pagination_count, messages_list, pulled, pages,
                   tasks, FAILED_IDS, files, calls>>

\* gather raises the exception of a task to process_messages, which raises
\* it to begin_import, which raises it to run_until_complete
GatherRaises ==
    /\ Awaiting
    /\ \E n \in PageTasks : tasks[n].pc = "raised"
    /\ pc' = "raised"
    /\ UNCHANGED <<inputs, config_last_read, last_read_message_id, pagination_count,
                   messages_list, pulled, pages, tasks, FAILED_IDS, files, calls>>

\* ------------------------------------------------------------------------
\* Explored inputs
\* ------------------------------------------------------------------------
AllTypes == <<"audio", "document", "photo", "video", "voice">>

\* strictly increasing id sequences above start, as iter_history yields them
RECURSIVE Increasing(_, _)
Increasing(lo, len) ==
    IF len = 0 THEN {<<>>}
    ELSE UNION {{<<i>> \o s : s \in Increasing(i, len - 1)} : i \in (lo + 1)..MaxId}

IdStreams(start) == UNION {Increasing(start, len) : len \in 0..MaxStream}

RunMessages(id) ==
    {Message(id, "none", None, None, 0), Message(id, "document", "application/pdf", "a", 0)}

MediaMessages(id) ==
    {Message(id, "none", None, None, 0), Message(id, "other", None, None, 0)}
    \cup {Message(id, "photo", m, "a", 0) : m \in {Missing, None}}
    \cup {Message(id, "voice", "audio/ogg", "a", 0), Message(id, "audio", "audio/mpeg", "a", 0)}
    \cup {Message(id, "document", m, "a", 0) : m \in {"application/pdf", "application/zip", None}}
    \cup {Message(id, "video", "video/mp4", "a", n) : n \in -1..MaxThumbs}

AllowLists == {<<"all">>, <<"pdf", "mp4">>, <<"pdf", "all">>}

\* the paths of the explored messages that a file may already take
TakenPaths == {<<"document", "a", "pdf">>, <<"video", "a", "mp4">>,
               <<"audio", "a", "mpeg">>, <<"voice", "a", "ogg", "ogg">>}

InitImport ==
    /\ config_last_read = start_id
    /\ last_read_message_id = start_id
    /\ pagination_count = 0
    /\ messages_list = <<>>
    /\ pulled = 0
    /\ pc = "iter"
    /\ tasks = <<>>
    /\ FAILED_IDS = <<>>
    /\ calls = {}
    /\ pages = <<>>

\* runs over streams of plain messages and documents
Init ==
    /\ start_id \in 0..1
    /\ \E ids \in IdStreams(start_id) :
          history \in {h \in [1..Len(ids) -> UNION {RunMessages(i) : i \in 1..MaxId}] :
                         \A i \in 1..Len(ids) : h[i].id = ids[i]}
    /\ pagination_limit \in 1..MaxLimit
    /\ debug \in BOOLEAN
    /\ media_types = AllTypes
    /\ file_formats = [t \in FormatTypes |-> <<"all">>]
    /\ files = {}
    /\ InitImport

\* runs over one message of any kind, alone or followed by a plain message
InitMedia ==
    /\ start_id = 0
    /\ \E m \in MediaMessages(1) :
          history \in {<<m>>, <<m, Message(2, "none", None, None, 0)>>}
    /\ pagination_limit = 1
    /\ debug \in BOOLEAN
    /\ media_types \in {AllTypes, <<"photo", "video">>}
    /\ \E a \in AllowLists : file_formats = [t \in FormatTypes |-> a]
    /\ files \in {{}, TakenPaths}
    /\ InitImport

Next ==
    \/ PullAppend
    \/ PullDispatch
    \/ PageReturns
    \/ Exhausted
    \/ FlushReturns
    \/ GatherRaises
    \/ \E n \in 1..Len(tasks) : TaskStart(n)
    \/ \E n \in 1..Len(tasks) : \E outcome \in {"path", None} \cup MessageErrors :
          DownloadReturns(n, outcome)
    \/ \E n \in 1..Len(tasks) : \E outcome \in {"same", "deleted", "raise"} :
          GetMessagesReturns(n, outcome)
    \/ \E n \in 1..Len(tasks) : SleepReturns(n)

Spec == Init /\ [][Next]_vars

SpecMedia == InitMedia /\ [][Next]_vars

\* every await of a run returns or raises, and the event loop runs every
\* task that is ready
Fairness ==
    /\ WF_vars(PullAppend) /\ WF_vars(PullDispatch) /\ WF_vars(PageReturns)
    /\ WF_vars(Exhausted) /\ WF_vars(FlushReturns) /\ WF_vars(GatherRaises)
    /\ \A n \in 1..(MaxStream + 1) :
          /\ WF_vars(TaskStart(n))
          /\ WF_vars(\E outcome \in {"path", None} \cup MessageErrors :
                        DownloadReturns(n, outcome))
          /\ WF_vars(\E outcome \in {"same", "deleted", "raise"} :
                        GetMessagesReturns(n, outcome))
          /\ WF_vars(SleepReturns(n))

FairSpecMedia == InitMedia /\ [][Next]_vars /\ Fairness

\* ------------------------------------------------------------------------
\* Properties
\* ------------------------------------------------------------------------
TaskIds == 1..Len(tasks)

SetMax(S) == CHOOSE m \in S : \A x \in S : x <= m

Range(s) == {s[i] : i \in 1..Len(s)}

\* the message of the stream with the given id
Original(id) == CHOOSE m \in Range(history) : m.id = id

\* C1: download_media never raises to its caller, whatever Message Source
\* call fails, and so process_messages and begin_import never fail.
C1_NeverRaises ==
    /\ \A n \in TaskIds : tasks[n].pc # "raised"
    /\ pc # "raised"

\* C2: when process_messages returns, its result is the largest id of the
\* page it was called with, whatever the outcomes of the messages.
C2_PageMax ==
    [][(Awaiting /\ pc' \notin {pc, "raised"})
         => last_read_message_id' = SetMax(Range(pages[Len(pages)]))]_vars

C2_Witness ==
    /\ Len(pages) >= 1
    /\ Len(pages[1]) = 2
    /\ pc \in {"iter", "flush", "done"}
    /\ InList(pages[1][2], FAILED_IDS)
    /\ ~InList(pages[1][1], FAILED_IDS)
    /\ last_read_message_id = pages[1][2]

\* C3: every list handed to process_messages has at most pagination_limit
\* messages.
C3_PageSize == \A p \in 1..Len(pages) : Len(pages[p]) <= pagination_limit

\* C4: the cursor moves and the tasks of the next page start only when every
\* task started before has ended; the tasks in flight belong to one page; no
\* pulled message at or below the cursor has a task that has not ended.
C4_InFlight ==
    /\ \A m, n \in TaskIds :
          tasks[m].pc \notin Terminal /\ tasks[n].pc \notin Terminal
            => tasks[m].page = tasks[n].page
    /\ \A i \in 1..pulled :
          history[i].id <= config_last_read \/ history[i].id <= last_read_message_id
            => \E n \in TaskIds : tasks[n].id = history[i].id /\ tasks[n].pc \in Terminal

C4_Step ==
    (\/ config_last_read' # config_last_read
     \/ last_read_message_id' # last_read_message_id
     \/ Len(tasks') > Len(tasks))
      => \A n \in TaskIds : tasks[n].pc \in Terminal

C4_Sequential == [](C4_InFlight) /\ [][C4_Step]_vars

C4_Witness ==
    /\ Len(pages) = 2
    /\ Len(pages[1]) = 2
    /\ config_last_read = pages[1][2]
    /\ InList(pages[1][1], FAILED_IDS)
    /\ \E n \in TaskIds : tasks[n].page = 2 /\ tasks[n].pc = "download"

\* C5: download_media enters the try body at most 3 times for a message.
C5_RetryCap == \A n \in TaskIds : tasks[n].attempts <= 3

C5_Witness ==
    \E n \in TaskIds :
        /\ tasks[n].pc = "done"
        /\ tasks[n].attempts = 3
        /\ tasks[n].broke

\* C6: a message whose three attempts each ended in BadRequest or TypeError,
\* every re-fetch having succeeded, is in FAILED_IDS when download_media
\* returns, and its id is returned.
C6_Exhausted ==
    \A n \in TaskIds :
        tasks[n].pc = "done" /\ tasks[n].errors = 3
          => InList(tasks[n].id, FAILED_IDS) /\ tasks[n].result = tasks[n].id

C6_Witness ==
    \E n \in TaskIds :
        /\ tasks[n].pc = "done"
        /\ tasks[n].errors = 3
        /\ Original(tasks[n].id).kind = "document"
        /\ \E c \in calls : c.id = tasks[n].id

\* C7: a message whose attempt raised an error that is neither BadRequest
\* nor TypeError is in FAILED_IDS and its task has returned the id, in the
\* same step, with no attempt beyond the one that raised.
C7_Unclassified ==
    \A n \in TaskIds :
        tasks[n].broke
          => /\ tasks[n].pc = "done"
             /\ tasks[n].result = tasks[n].id
             /\ InList(tasks[n].id, FAILED_IDS)
             /\ tasks[n].attempts = tasks[n].errors + 1

C7_Witness ==
    \E n \in TaskIds :
        /\ tasks[n].broke
        /\ tasks[n].attempts = 2
        /\ \E c \in calls : c.id = tasks[n].id

\* C8: a message with a photo, photo being an enabled media type, has a
\* download call issued for it and is not in FAILED_IDS when download_media
\* has returned.
C8_PhotoDownloaded ==
    \A n \in TaskIds :
        /\ tasks[n].pc = "done"
        /\ Original(tasks[n].id).kind = "photo"
        /\ InList("photo", media_types)
        => /\ \E c \in calls : c.id = tasks[n].id
           /\ ~InList(tasks[n].id, FAILED_IDS)

\* C9: when begin_import has returned, config["last_read_message_id"] is at
\* least the id of every message pulled, and is the starting cursor when no
\* message was pulled.
C9_FinalCursor ==
    pc = "done"
      => /\ \A i \in 1..pulled : config_last_read >= history[i].id
         /\ pulled = 0 => config_last_read = start_id

C9_Witness ==
    /\ pc = "done"
    /\ pulled = 3
    /\ Len(pages) = 2
    /\ FAILED_IDS # <<>>
    /\ config_last_read = history[3].id

\* C10: every run ends with every task ended and the cursor written by
\* begin_import.
C10_Terminates == <>(pc = "done" /\ \A n \in TaskIds : tasks[n].pc \in Terminal)

\* C11: no assignment of begin_import lowers the cursor, neither the local
\* last_read_message_id nor config["last_read_message_id"].
C11_Monotonic ==
    [][/\ config_last_read' >= config_last_read
       /\ last_read_message_id' >= last_read_message_id]_vars

C11_Witness ==
    /\ pc = "done"
    /\ ~debug
    /\ Len(pages) = 2
    /\ FAILED_IDS # <<>>
    /\ config_last_read = pages[2][Len(pages[2])]
    /\ config_last_read > pages[1][Len(pages[1])]

\* the format _get_media_meta resolves for a message of the stream
ResolvedFormat(m) == MimeSuffix(m.mime)

\* the attachment of the message fails the format filter of its type
Rejected(m) ==
    /\ m.kind \in FormatTypes
    /\ m.mime # None
    /\ ~InList(ResolvedFormat(m), file_formats[m.kind])
    /\ file_formats[m.kind][1] # "all"

\* C12: for an audio, document or video whose format is not in the
\* allow-list of its type, the first entry of the list not being "all", no
\* download call is issued and the message id is not put in FAILED_IDS.
C12_Skipped ==
    \A n \in TaskIds :
        Rejected(Original(tasks[n].id))
          => /\ \A c \in calls : c.id # tasks[n].id
             /\ ~InList(tasks[n].id, FAILED_IDS)
             /\ tasks[n].pc \in {"new", "done"}

C12_Witness ==
    \E n \in TaskIds :
        /\ tasks[n].pc = "done"
        /\ Original(tasks[n].id).kind = "document"
        /\ InList("document", media_types)
        /\ file_formats["document"] = <<"pdf", "all">>
        /\ Rejected(Original(tasks[n].id))
        /\ tasks[n].result = tasks[n].id

C14_NoMedia ==
    [][\A n \in TaskIds :
         tasks'[n].attempts > tasks[n].attempts /\ tasks'[n].seen = "none"
           => /\ tasks'[n].pc = "done"
              /\ tasks'[n].result = tasks[n].id
              /\ calls' = calls
              /\ FAILED_IDS' = FAILED_IDS]_vars

C14_Witness ==
    \E n \in TaskIds :
        /\ tasks[n].pc = "done"
        /\ tasks[n].seen = "none"
        /\ tasks[n].attempts = 2
        /\ ~InList(tasks[n].id, FAILED_IDS)
        /\ \E c \in calls : c.id = tasks[n].id

RECURSIVE Flatten(_)
Flatten(ss) == IF ss = <<>> THEN <<>> ELSE ss[1] \o Flatten(Tail(ss))

\* the ids of the first k messages of the stream
StreamIds(k) == [i \in 1..k |-> history[i].id]

IsPrefix(s, t) == Len(s) <= Len(t) /\ \A i \in 1..Len(s) : s[i] = t[i]

\* C15: without debug, the pages put end to end are the pulled messages in
\* stream order, each once: a prefix of them while the run goes on, all of
\* them when the run has ended.
C15_ExactlyOnce ==
    ~debug
      => /\ IsPrefix(Flatten(pages), StreamIds(pulled))
         /\ pc \in {"done", "raised"} => Flatten(pages) = StreamIds(pulled)

\* C16: every download call issued for a message with a video is a call for
\* one of its thumbnails, never for the message itself.
C16_ThumbsOnly ==
    \A c \in calls : Original(c.id).kind = "video" => c.what = "thumb"

\* C17: with debug, one page only is handed to process_messages.
C17_OnePage == debug => Len(pages) <= 1

\* C18: an id is in FAILED_IDS only for a task that entered the last except
\* clause or caught three BadRequest or TypeError errors; a task whose last
\* attempt completed without error is not recorded.
C18_OnlyPermanent ==
    \A n \in TaskIds :
        /\ InList(tasks[n].id, FAILED_IDS)
             => tasks[n].pc = "done" /\ (tasks[n].broke \/ tasks[n].errors = 3)
        /\ tasks[n].pc = "done" /\ ~tasks[n].broke /\ tasks[n].errors < tasks[n].attempts
             => ~InList(tasks[n].id, FAILED_IDS)

C18_Witness ==
    \E n \in TaskIds :
        /\ tasks[n].pc = "done"
        /\ tasks[n].attempts = 3
        /\ tasks[n].errors = 2
        /\ ~tasks[n].broke
        /\ ~InList(tasks[n].id, FAILED_IDS)
        /\ \E c \in calls : c.id = tasks[n].id

\* C19: no id occurs twice in FAILED_IDS, and no step removes or reorders
\* its entries.
C19_NoDuplicate ==
    \A i, j \in 1..Len(FAILED_IDS) : i # j => FAILED_IDS[i] # FAILED_IDS[j]

C19_Step == IsPrefix(FAILED_IDS, FAILED_IDS')

C19_FailedOnce == [](C19_NoDuplicate) /\ [][C19_Step]_vars

C19_Witness ==
    /\ Len(FAILED_IDS) = 2
    /\ \E m, n \in TaskIds :
          /\ m < n
          /\ tasks[m].page = tasks[n].page
          /\ FAILED_IDS = <<tasks[n].id, tasks[m].id>>

\* a download of the message of task n to its save path is in flight, issued
\* after _is_exist found no file there
PlainInFlight(ts, n) ==
    ts[n].pc = "download" /\ ts[n].branch = "plain" /\ ts[n].call.what = "message"

\* C20: a task issues the download to its save path whenever no file is at
\* the path, whatever downloads are in flight: two tasks of a page can have
\* downloads to one path in flight together.
C20_CheckThenAct ==
    [][\A n \in TaskIds :
         PlainInFlight(tasks', n) /\ tasks'[n] # tasks[n]
           => tasks'[n].call.path \notin files]_vars

C20_Witness ==
    \E m, n \in TaskIds :
        /\ m # n
        /\ tasks[m].page = tasks[n].page
        /\ PlainInFlight(tasks, m)
        /\ PlainInFlight(tasks, n)
        /\ tasks[m].call.path = tasks[n].call.path
        /\ tasks[m].call.path \notin files

====
